---- MODULE Spec2Model ----
(***************************************************************************)
(* The asynchronous run pipeline of the personal assistant:                *)
(*   post_message        (app/api/routes/messages.py)                      *)
(*   enqueue_agent_run   (app/services/enqueue.py)                         *)
(*   run_agent_job       (app/worker/jobs.py)                              *)
(*   execute_agent_run   (app/services/agent_runner.py)                    *)
(*   generate_chart      (app/services/visuals.py)                         *)
(*   send_to_external_system (app/services/integration.py)                 *)
(*                                                                         *)
(* The store is the set of committed rows.  Every request handler and      *)
(* every job owns one SQLAlchemy session: rows it has flushed are pending  *)
(* in its transaction and become visible to others only at db.commit().    *)
(* A failed flush rolls the transaction back and leaves the session        *)
(* inactive: every later use of it raises until rollback() is called,      *)
(* which this code never does.                                             *)
(* Texts are sequences of one-character strings.                           *)
(***************************************************************************)
EXTENDS Integers, Sequences, FiniteSets, TLC

\* ---------------------------------------------------------------- bounds
MaxPosts == 1       \* requests to post_message, with racing workers
JobPosts == 1       \* requests to post_message, with one worker
MaxRedeliver == 1   \* jobs the queue hands out a second time
MaxCrashes == 1     \* worker processes that die
NumWorkers == 2
NotFoundPosts == 1  \* requests to post_message, with records that go missing
MaxStaleJobs == 1   \* jobs in the queue whose run id matches no record
HistoryPosts == 2   \* requests to post_message, in one conversation

Workers == 1..NumWorkers

\* ------------------------------------------------------------- constants
max_attempts_Four == 3 + 1
max_attempts == 3
backoff_delays == <<1, 2, 4>>
SuccessCodes == {200, 201, 202}
Null == "null"
UtcNow == "utcnow"
NoMedia == 0

\* a run id that matches no AgentRun row
UnknownRun == 100

\* conversations of the calling user; NoConversation is an id that the
\* lookup of post_message does not find
Conversations == {"c1", "c2"}
NoConversation == "c0"

\* request texts offered to post_message
Texts ==
  { <<"H", "i">>,
    <<"P", "l", "O", "t", ":", "x">>,
    <<"c", "h", "a", "r", "t", ":">>,
    <<"p", "l", "o", "t">> }

\* what the integration endpoint can answer: a status code, or a
\* transport-level error raised by httpx
TransportError == 0
NoResponse == -1
Responses == {200, 201, 202, 500, TransportError}

\* how far the artifact attempt gets
ArtifactOutcomes ==
  {"ok", "render_error", "media_flush_error", "image_flush_error"}

\* the inputs of the specification in which workers race
RaceConversations == {"c1", NoConversation}
RaceTexts == { <<"H", "i">>, <<"P", "l", "O", "t", ":", "x">> }
RaceOutcomes == {"ok", "media_flush_error"}
RaceResponses == {200, 500}

\* texts the generation capability can return
GeneratedTexts == { <<"o", "k">> }

VARIABLES
  INTEGRATION_URL,        \* settings.INTEGRATION_URL is set
  GEMINI_API_KEY,         \* settings.GEMINI_API_KEY is set
  agent_runs,             \* committed AgentRun rows, indexed by id
  messages,               \* committed Message rows
  media,                  \* committed Media rows
  integration_deliveries, \* committed IntegrationDelivery rows, by id
  job_queue,              \* the run ids of the jobs waiting, oldest first
  producer,               \* the request handler of post_message
  pc,                     \* worker -> position in the job
  session,                \* worker -> its SQLAlchemy session
  locals,                 \* worker -> local variables of the job
  delivered,              \* run ids the queue has handed to a worker
  counters                \* id generators and the bounded environment

vars == << INTEGRATION_URL, GEMINI_API_KEY, agent_runs, messages, media,
           integration_deliveries, job_queue, producer, pc, session,
           locals, delivered, counters >>

config == << INTEGRATION_URL, GEMINI_API_KEY >>
store == << agent_runs, messages, media, integration_deliveries >>

\* ------------------------------------------------------------ pure parts
LowerOf ==
  ("P" :> "p") @@ ("L" :> "l") @@ ("O" :> "o") @@ ("T" :> "t") @@
  ("C" :> "c") @@ ("H" :> "h") @@ ("A" :> "a") @@ ("R" :> "r")

\* str.lower()
Lower(s) == [i \in 1..Len(s) |-> IF s[i] \in DOMAIN LowerOf
                                   THEN LowerOf[s[i]] ELSE s[i]]

\* sub in s
Contains(sub, s) ==
  \E i \in 1..(Len(s) - Len(sub) + 1) : SubSeq(s, i, i + Len(sub) - 1) = sub

KwPlot_NoColon == <<"p", "l", "o", "t">>

KwPlot == <<"p", "l", "o", "t", ":">>
KwChart == <<"c", "h", "a", "r", "t", ":">>

WantsVisual_CaseSensitive(user_text) ==
  Contains(KwPlot, user_text) \/ Contains(KwChart, user_text)

\* "plot:" in user_text.lower() or "chart:" in user_text.lower()
WantsVisual(user_text) ==
  Contains(KwPlot, Lower(user_text)) \/ Contains(KwChart, Lower(user_text))

EchoPrefix == <<"E", "c", "h", "o", ":", " ">>
FallbackPrefix ==
  <<"I", " ", "r", "e", "c", "e", "i", "v", "e", "d", " ", "y", "o", "u", "r",
    " ", "m", "e", "s", "s", "a", "g", "e", ":", " ">>

\* the rows of a set ordered by created_at descending
RECURSIVE OrderByCreated_Desc(_)
OrderByCreated_Desc(S) ==
  IF S = {} THEN << >>
  ELSE LET first == CHOOSE m \in S : \A o \in S : m.created_at >= o.created_at
       IN  << first >> \o OrderByCreated_Desc(S \ {first})

\* the rows of a set ordered by created_at ascending
RECURSIVE OrderByCreated(_)
OrderByCreated(S) ==
  IF S = {} THEN << >>
  ELSE LET first == CHOOSE m \in S : \A o \in S : m.created_at <= o.created_at
       IN  << first >> \o OrderByCreated(S \ {first})

RoleOf_WithSystem(sender) ==
  IF sender \in {"user", "system"} THEN "user"
  ELSE IF sender = "assistant" THEN "model" ELSE Null

\* sender of a message -> role of the turn, or Null when it is no turn
RoleOf(sender) ==
  IF sender = "user" THEN "user"
  ELSE IF sender = "assistant" THEN "model" ELSE Null

\* content_json.get("text", "")
TextOf(content_json) ==
  IF "text" \in DOMAIN content_json THEN content_json.text ELSE << >>

RECURSIVE BuildContext(_)
BuildContext(msgs) ==
  IF msgs = << >> THEN << >>
  ELSE LET m == Head(msgs)
           rest == BuildContext(Tail(msgs))
       IN  IF RoleOf(m.sender) = Null THEN rest
           ELSE << [role |-> RoleOf(m.sender),
                    parts |-> TextOf(m.content_json)] >> \o rest

\* conversation_context[:-1] if len(conversation_context) > 1 else []
HistoryOf(context) ==
  IF Len(context) > 1 THEN SubSeq(context, 1, Len(context) - 1) ELSE << >>

\* ----------------------------------------------------------- initial state
NoLocals ==
  [ run_id |-> 0, job |-> 0, user_text |-> << >>, generate_visual |-> FALSE,
    conversation_context |-> << >>, history |-> << >>,
    response_text |-> << >>, media_id |-> NoMedia,
    has_visualization |-> FALSE, entered_send |-> FALSE,
    delivery |-> 0, attempt |-> 0, requests |-> 0, only500 |-> TRUE,
    first_response |-> NoResponse, waited |-> 0, error |-> Null,
    artifact |-> Null, generation |-> Null,
    outcome |-> Null ]

NewSession == [ active |-> TRUE, new_messages |-> {}, new_media |-> {} ]

IdleProducer ==
  [ pc |-> "idle", conversation_id |-> Null, message |-> Null, run_id |-> 0 ]

Init ==
  /\ INTEGRATION_URL \in BOOLEAN
  /\ GEMINI_API_KEY \in BOOLEAN
  /\ agent_runs = << >>
  /\ messages = {}
  /\ media = {}
  /\ integration_deliveries = << >>
  /\ job_queue = << >>
  /\ producer = IdleProducer
  /\ pc = [w \in Workers |-> "idle"]
  /\ session = [w \in Workers |-> NewSession]
  /\ locals = [w \in Workers |-> NoLocals]
  /\ delivered = {}
  /\ counters = [ posts |-> 0, redeliveries |-> 0, crashes |-> 0, stale |-> 0,
                  next_message |-> 1, next_media |-> 1, next_job |-> 1 ]

\* a message with sender "system" that a conversation can hold before any
\* post (models.py line 45 admits the sender; no code of the pipeline
\* writes one)
SystemMessage ==
  [ id |-> 0, conversation_id |-> "c1", sender |-> "system",
    content_json |-> [type |-> "text", text |-> <<"s", "y", "s">>],
    created_at |-> 0, job |-> 0 ]

\* as Init, with or without a system message in conversation c1
InitHistory ==
  /\ INTEGRATION_URL \in BOOLEAN
  /\ GEMINI_API_KEY \in BOOLEAN
  /\ agent_runs = << >>
  /\ messages \in { {}, {SystemMessage} }
  /\ media = {}
  /\ integration_deliveries = << >>
  /\ job_queue = << >>
  /\ producer = IdleProducer
  /\ pc = [w \in Workers |-> "idle"]
  /\ session = [w \in Workers |-> NewSession]
  /\ locals = [w \in Workers |-> NoLocals]
  /\ delivered = {}
  /\ counters = [ posts |-> 0, redeliveries |-> 0, crashes |-> 0, stale |-> 0,
                  next_message |-> 1, next_media |-> 1, next_job |-> 1 ]

\* ------------------------------------------------------------- the session
\* db.commit(): the rows flushed by this session become visible
CommitSession(w) ==
  /\ messages' = messages \cup session[w].new_messages
  /\ media' = media \cup session[w].new_media
  /\ session' = [session EXCEPT ![w].new_messages = {}, ![w].new_media = {}]

\* a flush that fails: the transaction is rolled back and the session
\* stays inactive
FailedFlush(w) ==
  session' = [session EXCEPT ![w] =
                [active |-> FALSE, new_messages |-> {}, new_media |-> {}]]

\* what a query of worker w sees: committed rows and its own flushed rows
VisibleMessages(w) == messages \cup session[w].new_messages

\* ------------------------------------------------------------ post_message
FlushVisible_Commits(row) == {row}

\* db.flush() sends the INSERT inside the open transaction: the rows it
\* makes visible to other sessions
FlushVisible(row) == {}

\* lines 27-52: look the conversation up, add the user message, flush
PostMessage(c, t) ==
  /\ producer.pc = "idle"
  /\ IF c \notin Conversations
     THEN /\ producer' = producer
          /\ counters' = [counters EXCEPT !.posts = @ + 1]
          /\ UNCHANGED messages
     ELSE LET message == [ id |-> counters.next_message,
                           conversation_id |-> c,
                           sender |-> "user",
                           content_json |-> [type |-> "text", text |-> t],
                           created_at |-> counters.next_message,
                           job |-> 0 ]
          IN /\ producer' = [ pc |-> "flushed", conversation_id |-> c,
                              run_id |-> 0, message |-> message ]
             /\ messages' = messages \cup FlushVisible(message)
             /\ counters' = [counters EXCEPT !.posts = @ + 1,
                                             !.next_message = @ + 1]
  /\ UNCHANGED << config, agent_runs, media, integration_deliveries,
                  job_queue, pc, session, locals, delivered >>

PostCommit_EnqueueFirst ==
  /\ producer.pc = "flushed"
  /\ job_queue' = Append(job_queue, Len(agent_runs) + 1)
  /\ producer' = IdleProducer
  /\ UNCHANGED << config, store, pc, session, locals, delivered, counters >>

\* lines 55-63: add the AgentRun and commit message and run together
PostCommit ==
  /\ producer.pc = "flushed"
  /\ agent_runs' = Append(agent_runs,
       [ conversation_id |-> producer.conversation_id,
         trigger_message_id |-> producer.message.id,
         status |-> "queued",
         started_at |-> Null, finished_at |-> Null, last_error |-> Null ])
  /\ messages' = messages \cup {producer.message}
  /\ producer' = [producer EXCEPT !.pc = "committed",
                                  !.run_id = Len(agent_runs) + 1]
  /\ UNCHANGED << config, media, integration_deliveries, job_queue, pc,
                  session, locals, delivered, counters >>

\* job_queue.enqueue(run_agent_job, run_id, ...)
enqueue_agent_run(run_id) ==
  job_queue' = Append(job_queue, run_id)

PostEnqueue_MarksRunning ==
  /\ producer.pc = "committed"
  /\ enqueue_agent_run(producer.run_id)
  /\ agent_runs' = [agent_runs EXCEPT ![producer.run_id].status = "running"]
  /\ producer' = IdleProducer
  /\ UNCHANGED << config, messages, media, integration_deliveries, pc,
                  session, locals, delivered, counters >>

\* lines 72-79: enqueue the job and answer 202
PostEnqueue ==
  /\ producer.pc = "committed"
  /\ enqueue_agent_run(producer.run_id)
  /\ producer' = IdleProducer
  /\ UNCHANGED << config, store, pc, session, locals, delivered, counters >>

\* line 73 raises: job_queue.enqueue (enqueue.py lines 19-25) cannot reach
\* the queue; the request ends with an error after the commit of line 62
PostEnqueueFails ==
  /\ producer.pc = "committed"
  /\ producer' = IdleProducer
  /\ UNCHANGED << config, store, job_queue, pc, session, locals, delivered,
                  counters >>

\* the request handler dies; what its session had not committed is lost
ProducerCrash ==
  /\ producer.pc # "idle"
  /\ producer' = IdleProducer
  /\ UNCHANGED << config, store, job_queue, pc, session, locals, delivered,
                  counters >>

\* ----------------------------------------------------------- the job queue
\* a worker takes a job: run_agent_job lines 14-16 open the session
Dequeue(w) ==
  /\ pc[w] = "idle"
  /\ job_queue # << >>
  /\ job_queue' = Tail(job_queue)
  /\ pc' = [pc EXCEPT ![w] = "start"]
  /\ session' = [session EXCEPT ![w] = NewSession]
  /\ locals' = [locals EXCEPT ![w] =
                  [NoLocals EXCEPT !.run_id = Head(job_queue),
                                   !.job = counters.next_job]]
  /\ delivered' = delivered \cup {Head(job_queue)}
  /\ counters' = [counters EXCEPT !.next_job = @ + 1]
  /\ UNCHANGED << config, store, producer >>

\* at-least-once delivery: the queue hands out again a job it has already
\* handed to a worker, whether or not that worker is still at it
Redeliver(r) ==
  /\ r \in delivered
  /\ counters.redeliveries < MaxRedeliver
  /\ job_queue' = Append(job_queue, r)
  /\ counters' = [counters EXCEPT !.redeliveries = @ + 1]
  /\ UNCHANGED << config, store, producer, pc, session, locals, delivered >>

\* the worker process dies or the job timeout kills the job: nothing more
\* is committed and the session's transaction is lost
WorkerCrash(w) ==
  /\ pc[w] # "idle"
  /\ counters.crashes < MaxCrashes
  /\ pc' = [pc EXCEPT ![w] = "idle"]
  /\ session' = [session EXCEPT ![w] = NewSession]
  /\ locals' = [locals EXCEPT ![w] = NoLocals]
  /\ counters' = [counters EXCEPT !.crashes = @ + 1]
  /\ UNCHANGED << config, store, job_queue, producer, delivered >>

\* the queue holds a job whose run id matches no AgentRun row
StaleJob ==
  /\ counters.stale < MaxStaleJobs
  /\ job_queue' = Append(job_queue, UnknownRun)
  /\ counters' = [counters EXCEPT !.stale = @ + 1]
  /\ UNCHANGED << config, store, producer, pc, session, locals, delivered >>

\* the trigger message of run r is no longer in the store when the job
\* looks for it, while the run is
TriggerMessageLost(r) ==
  /\ \E m \in messages : m.id = agent_runs[r].trigger_message_id
  /\ messages' = {m \in messages : m.id # agent_runs[r].trigger_message_id}
  /\ UNCHANGED << config, agent_runs, media, integration_deliveries,
                  job_queue, producer, pc, session, locals, delivered,
                  counters >>

\* ------------------------------------------------------- execute_agent_run
AfterMissingRun_Handler == "except"

\* lines 27-29: with no run the function returns, outside the try block
AfterMissingRun == "finally"

RunningRow_NoStart(row) == [row EXCEPT !.status = "running"]

RunningRow_Skip(row) == [row EXCEPT !.started_at = UtcNow]

\* the row written by lines 32-33
RunningRow(row) == [row EXCEPT !.status = "running", !.started_at = UtcNow]

\* lines 25-34: load the run; return if there is none; else commit running
StartRun(w) ==
  LET r == locals[w].run_id IN
  /\ pc[w] = "start"
  /\ IF r \notin DOMAIN agent_runs
     THEN /\ pc' = [pc EXCEPT ![w] = AfterMissingRun]
          /\ locals' = [locals EXCEPT ![w].outcome = "returned"]
          /\ UNCHANGED << store, session >>
     ELSE /\ agent_runs' = [agent_runs EXCEPT ![r] = RunningRow(@)]
          /\ CommitSession(w)
          /\ pc' = [pc EXCEPT ![w] = "context"]
          /\ UNCHANGED << integration_deliveries, locals >>
  /\ UNCHANGED << config, job_queue, producer, delivered, counters >>

\* lines 42-70: read the conversation's messages and the trigger message
LoadContext(w) ==
  LET run == agent_runs[locals[w].run_id]
      msgs == OrderByCreated({m \in VisibleMessages(w) :
                                m.conversation_id = run.conversation_id})
      trigger == {m \in VisibleMessages(w) : m.id = run.trigger_message_id}
  IN
  /\ pc[w] = "context"
  /\ IF trigger = {}
     THEN /\ pc' = [pc EXCEPT ![w] = "except"]
          /\ locals' = [locals EXCEPT ![w].error = "AttributeError"]
     ELSE LET user_text == TextOf((CHOOSE m \in trigger : TRUE).content_json)
          IN /\ pc' = [pc EXCEPT ![w] = "agent"]
             /\ locals' = [locals EXCEPT
                             ![w].user_text = user_text,
                             ![w].generate_visual = WantsVisual(user_text),
                             ![w].conversation_context = BuildContext(msgs)]
  /\ UNCHANGED << config, store, job_queue, producer, session, delivered,
                  counters >>

\* lines 42-85, outside the inner handlers: a step of the Execution Engine
\* raises an exception that no fallback covers (the store answers a query
\* with an error); line 152 catches it
UnclassifiedFailure(w) ==
  /\ pc[w] \in {"context", "agent"}
  /\ pc' = [pc EXCEPT ![w] = "except"]
  /\ locals' = [locals EXCEPT ![w].error = "OperationalError"]
  /\ UNCHANGED << config, store, job_queue, producer, session, delivered,
                  counters >>

\* lines 84-85: the flush of the assistant message fails (the INSERT is
\* refused or the connection is lost); the exception leaves the try block
\* at line 85 and line 152 catches it, the session is inactive
ReplyFlushFails(w) ==
  /\ pc[w] = "agent"
  /\ FailedFlush(w)
  /\ pc' = [pc EXCEPT ![w] = "except"]
  /\ locals' = [locals EXCEPT ![w].error = "FlushError"]
  /\ UNCHANGED << config, store, job_queue, producer, delivered, counters >>

EchoResponse_Fallback(user_text) == FallbackPrefix \o user_text

\* line 177: f"Echo: {user_text}"
EchoResponse(user_text) == EchoPrefix \o user_text

FallbackResponse_Echo(user_text) == EchoPrefix \o user_text

\* line 194: f"I received your message: {user_text}"
FallbackResponse(user_text) == FallbackPrefix \o user_text

\* the texts _run_gemini_agent can return (lines 175-194)
AgentReplies(user_text) ==
  IF ~GEMINI_API_KEY
  THEN { EchoResponse(user_text) }
  ELSE GeneratedTexts \cup { FallbackResponse(user_text) }

\* which path of _run_gemini_agent has returned response_text: the key is
\* not set (line 175), the call returned (line 189) or raised (line 191)
GenerationPath(response_text) ==
  IF ~GEMINI_API_KEY THEN "unconfigured"
  ELSE IF response_text \in GeneratedTexts THEN "answered" ELSE "raised"

\* lines 72-85: run the agent, add the assistant Text message and flush
RunAgent(w, response_text) ==
  LET l == locals[w] IN
  /\ pc[w] = "agent"
  /\ response_text \in AgentReplies(l.user_text)
  /\ session' = [session EXCEPT ![w].new_messages = @ \cup
       { [ id |-> counters.next_message,
           conversation_id |-> agent_runs[l.run_id].conversation_id,
           sender |-> "assistant",
           content_json |-> [type |-> "text", text |-> response_text],
           created_at |-> counters.next_message,
           job |-> l.job ] }]
  /\ counters' = [counters EXCEPT !.next_message = @ + 1]
  /\ locals' = [locals EXCEPT
                  ![w].response_text = response_text,
                  ![w].generation = GenerationPath(response_text),
                  ![w].history = IF GEMINI_API_KEY
                                   THEN HistoryOf(l.conversation_context)
                                   ELSE << >>]
  /\ pc' = [pc EXCEPT ![w] = IF l.generate_visual THEN "chart" ELSE "payload"]
  /\ UNCHANGED << config, store, job_queue, producer, delivered >>

\* visuals.py lines 67-77, generate_chart: the Media row of the chart
MediaRow(media_id, conversation_id, job) ==
  [ id |-> media_id, conversation_id |-> conversation_id,
    media_type |-> "image/png", job |-> job ]

ImageRow_MessageUrl(id, conversation_id, media_id, job) ==
  [ id |-> id, conversation_id |-> conversation_id, sender |-> "assistant",
    content_json |-> [ type |-> "image",
                       url |-> << "/v1/media/", id >>,
                       caption |-> "Generated visualization" ],
    created_at |-> id, job |-> job ]

\* lines 103-115: the Image message of the artifact
ImageRow(id, conversation_id, media_id, job) ==
  [ id |-> id, conversation_id |-> conversation_id, sender |-> "assistant",
    content_json |-> [ type |-> "image",
                       url |-> << "/v1/media/", media_id >>,
                       caption |-> "Generated visualization" ],
    created_at |-> id, job |-> job ]

\* lines 93-127, the artifact attempt.  o says how far it gets:
\*   render_error        generate_chart raises before it touches the session
\*   media_flush_error   the flush of the Media row fails (visuals.py 75)
\*   image_flush_error   generate_chart returns, the flush of the Image
\*                       message fails (line 115)
\*   ok                  both rows are flushed
\* Every error is caught at line 122; media_id keeps what line 97 assigned.
ArtifactAttempt(w, o) ==
  LET l == locals[w]
      conv == agent_runs[l.run_id].conversation_id
  IN
  /\ pc[w] = "chart"
  /\ counters' = [counters EXCEPT
                    !.next_media = @ + 1,
                    !.next_message = IF o \in {"ok", "image_flush_error"}
                                     THEN @ + 1 ELSE @]
  /\ CASE o = "render_error" ->
            /\ locals' = [locals EXCEPT ![w].artifact = o]
            /\ UNCHANGED session
       [] o = "media_flush_error" ->
            /\ FailedFlush(w)
            /\ locals' = [locals EXCEPT ![w].artifact = o]
       [] o = "image_flush_error" ->
            /\ FailedFlush(w)
            /\ locals' = [locals EXCEPT ![w].media_id = counters.next_media,
                                        ![w].artifact = o]
       [] o = "ok" ->
            /\ session' = [session EXCEPT
                 ![w].new_media =
                     @ \cup { MediaRow(counters.next_media, conv, l.job) },
                 ![w].new_messages =
                     @ \cup { ImageRow(counters.next_message, conv,
                                       counters.next_media, l.job) }]
            /\ locals' = [locals EXCEPT ![w].media_id = counters.next_media,
                                        ![w].artifact = o]
  /\ pc' = [pc EXCEPT ![w] = "payload"]
  /\ UNCHANGED << config, store, job_queue, producer, delivered >>

\* -------------------------------------------------- send_to_external_system
IntegrationDisabled_Never == FALSE

\* line 20: if not settings.INTEGRATION_URL: return
IntegrationDisabled == ~INTEGRATION_URL

IsSuccess_Any(response) == response # TransportError

IsSuccess_No200(response) == response \in {201, 202}

\* line 68: response.status_code in [200, 201, 202]
IsSuccess(response) == response \in SuccessCodes

\* lines 81 and 94: the text kept in last_error
ErrorMessage(response) ==
  IF response = TransportError THEN "ConnectError"
  ELSE IF response = 500 THEN "HTTP 500: " ELSE "HTTP other: "

WaitsAfter_Always(attempt) == TRUE

\* line 107: a wait follows the failed attempt (counted from 0)
WaitsAfter(attempt) == attempt < max_attempts - 1

AfterFailedAttempt_Raises(attempt) ==
  IF attempt + 1 < max_attempts THEN "attempt" ELSE "except"

\* lines 48 and 116: after a failed attempt the loop goes to the next
\* attempt, or ends and the delivery is marked failed
AfterFailedAttempt(attempt) ==
  IF attempt + 1 < max_attempts THEN "attempt" ELSE "exhausted"

HasVisualization_Always(media_id) == TRUE

\* line 136: "has_visualization": media_id is not None
HasVisualization(media_id) == media_id # NoMedia

\* agent_runner.py lines 129-139 and integration.py lines 19-35: build the
\* payload (the lazy load of agent_run.conversation raises on an inactive
\* session), return if the integration is disabled, else add the delivery
\* row and commit
SendStart(w) ==
  LET l == locals[w] IN
  /\ pc[w] = "payload"
  /\ IF ~session[w].active
     THEN /\ pc' = [pc EXCEPT ![w] = "except"]
          /\ locals' = [locals EXCEPT ![w].error = "PendingRollbackError"]
          /\ UNCHANGED << store, session >>
     ELSE IF IntegrationDisabled
     THEN /\ pc' = [pc EXCEPT ![w] = "succeed"]
          /\ locals' = [locals EXCEPT
                          ![w].has_visualization = HasVisualization(l.media_id),
                          ![w].entered_send = TRUE]
          /\ UNCHANGED << store, session >>
     ELSE /\ integration_deliveries' = Append(integration_deliveries,
               [ run_id |-> l.run_id, status |-> "pending", attempts |-> 0,
                 last_error |-> Null ])
          /\ CommitSession(w)
          /\ pc' = [pc EXCEPT ![w] = "attempt"]
          /\ locals' = [locals EXCEPT
                          ![w].has_visualization = HasVisualization(l.media_id),
                          ![w].entered_send = TRUE,
                          ![w].delivery = Len(integration_deliveries) + 1,
                          ![w].attempt = 0]
          /\ UNCHANGED agent_runs
  /\ UNCHANGED << config, job_queue, producer, delivered, counters >>

AttemptNumber_FromZero(attempt) == attempt

\* line 49: the attempts counter while attempt (counted from 0) is made
AttemptNumber(attempt) == attempt + 1

\* lines 48-50: count the attempt and commit
AttemptBegin(w) ==
  LET l == locals[w] IN
  /\ pc[w] = "attempt"
  /\ integration_deliveries' =
       [integration_deliveries EXCEPT
          ![l.delivery].attempts = AttemptNumber(l.attempt)]
  /\ CommitSession(w)
  /\ pc' = [pc EXCEPT ![w] = "post"]
  /\ UNCHANGED << config, agent_runs, job_queue, producer, locals, delivered,
                  counters >>

\* lines 106-114: the sleep that follows failed attempt number attempt
BackoffDelay(attempt) ==
  IF WaitsAfter(attempt) THEN backoff_delays[attempt + 1] ELSE 0

\* lines 52-114: send the request; commit succeeded and return, or record
\* the error (bad status code, or an exception of the client), commit,
\* sleep, and go to the next attempt or leave the loop
HttpPost(w, response) ==
  LET l == locals[w] IN
  /\ pc[w] = "post"
  /\ IF IsSuccess(response)
     THEN /\ integration_deliveries' =
               [integration_deliveries EXCEPT ![l.delivery].status = "succeeded"]
          /\ pc' = [pc EXCEPT ![w] = "succeed"]
          /\ locals' = [locals EXCEPT
               ![w].requests = @ + 1,
               ![w].only500 = (@ /\ response = 500),
               ![w].first_response = IF l.requests = 0 THEN response ELSE @]
     ELSE /\ integration_deliveries' =
               [integration_deliveries EXCEPT
                  ![l.delivery].last_error = ErrorMessage(response)]
          /\ pc' = [pc EXCEPT ![w] = AfterFailedAttempt(l.attempt)]
          /\ locals' = [locals EXCEPT
               ![w].requests = @ + 1,
               ![w].only500 = (@ /\ response = 500),
               ![w].first_response = IF l.requests = 0 THEN response ELSE @,
               ![w].waited = @ + BackoffDelay(l.attempt),
               ![w].attempt = @ + 1]
  /\ CommitSession(w)
  /\ UNCHANGED << config, agent_runs, job_queue, producer, delivered,
                  counters >>

\* lines 116-118: all attempts failed
MarkDeliveryFailed(w) ==
  LET l == locals[w] IN
  /\ pc[w] = "exhausted"
  /\ integration_deliveries' =
       [integration_deliveries EXCEPT ![l.delivery].status = "failed"]
  /\ CommitSession(w)
  /\ pc' = [pc EXCEPT ![w] = "succeed"]
  /\ UNCHANGED << config, agent_runs, job_queue, producer, locals, delivered,
                  counters >>

\* ------------------------------------------- execute_agent_run, the ending
\* lines 141-144: mark the run as succeeded and commit
MarkSucceeded(w) ==
  LET r == locals[w].run_id IN
  /\ pc[w] = "succeed"
  /\ agent_runs' = [agent_runs EXCEPT ![r].status = "succeeded",
                                      ![r].finished_at = UtcNow]
  /\ CommitSession(w)
  /\ locals' = [locals EXCEPT ![w].outcome = "succeeded"]
  /\ pc' = [pc EXCEPT ![w] = "finally"]
  /\ UNCHANGED << config, integration_deliveries, job_queue, producer,
                  delivered, counters >>

\* lines 152-164: mark the run as failed, commit and re-raise.  On an
\* inactive session the commit itself raises and nothing is written.
HandleFailure(w) ==
  LET r == locals[w].run_id IN
  /\ pc[w] = "except"
  /\ IF session[w].active
     THEN /\ agent_runs' = [agent_runs EXCEPT
                              ![r].status = "failed",
                              ![r].finished_at = UtcNow,
                              ![r].last_error = locals[w].error]
          /\ CommitSession(w)
          /\ locals' = [locals EXCEPT ![w].outcome = "failed"]
          /\ UNCHANGED integration_deliveries
     ELSE /\ locals' = [locals EXCEPT ![w].outcome = "raised"]
          /\ UNCHANGED << store, session >>
  /\ pc' = [pc EXCEPT ![w] = "finally"]
  /\ UNCHANGED << config, job_queue, producer, delivered, counters >>

\* jobs.py lines 19-22: db.close(); the worker is free for the next job
JobEnd(w) ==
  /\ pc[w] = "finally"
  /\ pc' = [pc EXCEPT ![w] = "idle"]
  /\ session' = [session EXCEPT ![w] = NewSession]
  /\ locals' = [locals EXCEPT ![w] = NoLocals]
  /\ UNCHANGED << config, store, job_queue, producer, delivered, counters >>

\* ------------------------------------------------------ the specifications
\* one step of the producer or of a worker in Ws, its inputs drawn from
\* conversations Cs, texts Ts, artifact outcomes Os and responses Rs, with
\* at most posts requests to post_message
Pipeline(Ws, Cs, Ts, Os, Rs, posts) ==
  \/ \E c \in Cs, t \in Ts : counters.posts < posts /\ PostMessage(c, t)
  \/ PostCommit
  \/ PostEnqueue
  \/ PostEnqueueFails
  \/ \E w \in Ws : Dequeue(w)
  \/ \E w \in Ws : StartRun(w)
  \/ \E w \in Ws : LoadContext(w)
  \/ \E w \in Ws : UnclassifiedFailure(w)
  \/ \E w \in Ws : ReplyFlushFails(w)
  \/ \E w \in Ws, t \in GeneratedTexts \cup
                          {EchoPrefix \o x : x \in Texts} \cup
                          {FallbackPrefix \o x : x \in Texts} :
       RunAgent(w, t)
  \/ \E w \in Ws, o \in Os : ArtifactAttempt(w, o)
  \/ \E w \in Ws : SendStart(w)
  \/ \E w \in Ws : AttemptBegin(w)
  \/ \E w \in Ws, response \in Rs : HttpPost(w, response)
  \/ \E w \in Ws : MarkDeliveryFailed(w)
  \/ \E w \in Ws : MarkSucceeded(w)
  \/ \E w \in Ws : HandleFailure(w)
  \/ \E w \in Ws : JobEnd(w)

\* the environment: crashes and the queue's redelivery
Environment ==
  \/ ProducerCrash
  \/ \E r \in delivered : Redeliver(r)
  \/ \E w \in Workers : WorkerCrash(w)

\* Workers race on redelivered jobs, producer and workers can crash
Next ==
  \/ Pipeline(Workers, RaceConversations, RaceTexts, RaceOutcomes,
              RaceResponses, MaxPosts)
  \/ Environment

Spec == Init /\ [][Next]_vars

\* One worker, every job delivered once, no crash; every input value
NextJob ==
  Pipeline({1}, Conversations \cup {NoConversation}, Texts, ArtifactOutcomes,
           Responses, JobPosts)

SpecJob == Init /\ [][NextJob]_vars

\* ... and the worker is not interrupted and every call it makes returns or
\* raises: a step that can be taken is taken
SpecJobFair == Init /\ [][NextJob]_vars /\ WF_vars(NextJob)

\* One worker; the queue can hold a job of an unknown run and the trigger
\* message of a run can be missing
NextNotFound ==
  \/ Pipeline({1}, RaceConversations, RaceTexts, RaceOutcomes, RaceResponses,
              NotFoundPosts)
  \/ StaleJob
  \/ \E r \in DOMAIN agent_runs : TriggerMessageLost(r)

SpecNotFound == Init /\ [][NextNotFound]_vars

\* One worker and one conversation, which can hold a system message and
\* receives several posts
NextHistory ==
  Pipeline({1}, {"c1"}, RaceTexts, {"ok"}, RaceResponses, HistoryPosts)

SpecHistory == InitHistory /\ [][NextHistory]_vars

\* ================================================================ properties
Terminal == {"succeeded", "failed"}
RunIds == DOMAIN agent_runs

\* send_to_external_system has returned to execute_agent_run in job w
SendReturned(w) == pc[w] \in {"succeed", "finally"} /\ locals[w].entered_send

\* ... and it had created a Delivery
Delivered(w) == SendReturned(w) /\ locals[w].delivery # 0

DeliveryOf(w) == integration_deliveries[locals[w].delivery]

\* committed rows written by job j
ImagesOf(j) ==
  {m \in messages : m.job = j /\ m.content_json.type = "image"}
RepliesOf(j) ==
  {m \in messages : m.job = j /\ m.content_json.type = "text"}
MediaOf(j) == {x \in media : x.job = j}

ArtifactFailures == {"render_error", "media_flush_error", "image_flush_error"}

\* C1: the committed status of a run never regresses: a succeeded or failed
\* run keeps its status for ever, and a running run never goes back to
\* queued, also when the queue delivers the same run id more than once.
C1_StatusNeverRegresses ==
  [][\A r \in RunIds :
       /\ agent_runs[r].status \in Terminal
            => agent_runs'[r].status = agent_runs[r].status
       /\ agent_runs[r].status = "running"
            => agent_runs'[r].status # "queued"]_vars

\* C2: no run skips running: no commit takes a run from queued directly to
\* succeeded or failed; the commit of running comes first.
C2_NeverSkipsRunning ==
  [][\A r \in RunIds :
       agent_runs[r].status = "queued"
         => agent_runs'[r].status \in {"queued", "running"}]_vars

C2_Witness ==
  \E w \in Workers :
    /\ pc[w] = "finally"
    /\ locals[w].outcome = "failed"
    /\ agent_runs[locals[w].run_id].status = "failed"

\* every run has its trigger message, a user message of its conversation,
\* and every user message is the trigger of exactly one run
C3_Paired ==
  /\ \A r \in RunIds :
       \E m \in messages :
         /\ m.id = agent_runs[r].trigger_message_id
         /\ m.sender = "user"
         /\ m.conversation_id = agent_runs[r].conversation_id
  /\ \A m \in messages :
       m.sender = "user"
         => Cardinality({r \in RunIds :
                           agent_runs[r].trigger_message_id = m.id}) = 1

\* a step that makes a user message or a run visible makes exactly one of
\* each visible, the run queued and triggered by that message
C3_OneCommit ==
  LET new_messages == {m \in messages' : m.sender = "user"} \ messages
      new_runs == (DOMAIN agent_runs') \ RunIds
  IN  (new_messages # {} \/ new_runs # {})
        => \E m \in new_messages, r \in new_runs :
             /\ new_messages = {m}
             /\ new_runs = {r}
             /\ agent_runs'[r].trigger_message_id = m.id
             /\ agent_runs'[r].conversation_id = m.conversation_id
             /\ agent_runs'[r].status = "queued"

\* C3: a post makes one new user message and one new queued run visible in
\* a single commit: in every committed state every run has its trigger
\* message and every user message has its run, whether or not the producer
\* crashed on the way.
C3_MessageAndRunTogether == [](C3_Paired) /\ [][C3_OneCommit]_vars

C3_Witness ==
  /\ producer.pc = "committed"
  /\ agent_runs[producer.run_id].status = "queued"
  /\ producer.message \in messages

\* C4: with INTEGRATION_URL unset no Delivery row is ever created, whatever
\* the posts, the job deliveries and the redeliveries.
C4_NoDeliveryWhenDisabled ==
  ~INTEGRATION_URL => integration_deliveries = << >>

C4_Witness ==
  /\ ~INTEGRATION_URL
  /\ counters.redeliveries > 0
  /\ \E w \in Workers :
       /\ pc[w] = "finally"
       /\ locals[w].outcome = "succeeded"
       /\ locals[w].job > 1

\* C5: if the endpoint answers every request with HTTP 500, then when
\* send_to_external_system returns, the Delivery is failed with attempts = 3
\* and exactly three requests were sent.
C5_AlwaysFailingEndpoint ==
  \A w \in Workers :
    (Delivered(w) /\ locals[w].only500)
      => /\ DeliveryOf(w).status = "failed"
         /\ DeliveryOf(w).attempts = 3
         /\ locals[w].requests = 3

C5_Witness ==
  \E w \in Workers :
    /\ Delivered(w) /\ locals[w].only500
    /\ DeliveryOf(w).status = "failed"
    /\ locals[w].requests = 3

C7_FirstAttemptSucceeds ==
  \A w \in Workers :
    (Delivered(w) /\ locals[w].first_response = 200)
      => /\ DeliveryOf(w).status = "succeeded"
         /\ DeliveryOf(w).attempts = 1
         /\ locals[w].requests = 1
         /\ locals[w].waited = 0

C7_Witness ==
  \E w \in Workers :
    /\ Delivered(w) /\ locals[w].first_response = 200
    /\ DeliveryOf(w).status = "succeeded"

\* C8: the outcome of the delivery never decides the status of the run: a
\* job that has entered send_to_external_system never reaches the failure
\* handler, and it ends with the run committed as succeeded, whether the
\* Delivery is succeeded or failed and whether the attempts failed by a
\* status code or by a transport error.
C8_DeliveryNeverFailsRun ==
  \A w \in Workers :
    locals[w].entered_send
      => /\ pc[w] # "except"
         /\ pc[w] = "finally"
              => /\ locals[w].outcome = "succeeded"
                 /\ agent_runs[locals[w].run_id].status = "succeeded"

C8_Witness ==
  \E w \in Workers :
    /\ pc[w] = "finally"
    /\ Delivered(w)
    /\ DeliveryOf(w).status = "failed"
    /\ DeliveryOf(w).last_error = ErrorMessage(TransportError)
    /\ agent_runs[locals[w].run_id].status = "succeeded"

\* C9: a job whose trigger text contains "plot:" in any letter case, and
\* whose artifact attempt does not fail, has committed exactly one Image
\* message besides its one Text reply, and exactly one Media row, when it
\* ends succeeded.
C9_OneImagePerPlot ==
  \A w \in Workers :
    ( /\ pc[w] = "finally"
      /\ locals[w].outcome = "succeeded"
      /\ Contains(KwPlot, Lower(locals[w].user_text))
      /\ locals[w].artifact \notin ArtifactFailures )
      => /\ Cardinality(ImagesOf(locals[w].job)) = 1
         /\ Cardinality(RepliesOf(locals[w].job)) = 1
         /\ Cardinality(MediaOf(locals[w].job)) = 1

C9_Witness ==
  \E w \in Workers :
    /\ pc[w] = "finally"
    /\ locals[w].outcome = "succeeded"
    /\ locals[w].user_text = <<"P", "l", "O", "t", ":", "x">>
    /\ locals[w].artifact = "ok"
    /\ Cardinality(ImagesOf(locals[w].job)) = 1

\* C10: the artifact attempt is all-or-nothing and never fails the run: when
\* a step of it has failed (rendering, the insert of the Media row or the
\* insert of the Image message), the finished job has committed no Media row
\* and no Image message, and the run is succeeded.
C10_ArtifactFailureSwallowed ==
  \A w \in Workers :
    (pc[w] = "finally" /\ locals[w].artifact \in ArtifactFailures)
      => /\ MediaOf(locals[w].job) = {}
         /\ ImagesOf(locals[w].job) = {}
         /\ locals[w].outcome = "succeeded"
         /\ agent_runs[locals[w].run_id].status = "succeeded"

\* the text of the trigger message of run r, as committed
TriggerText(r) ==
  TextOf((CHOOSE m \in messages :
            m.id = agent_runs[r].trigger_message_id).content_json)

\* job w has left _run_gemini_agent
AgentReturned(w) == locals[w].generation # Null

\* job w has ended with the run committed as succeeded and with exactly one
\* committed Text reply of its own, whose body is text
SucceededWithReply(w, text) ==
  /\ locals[w].outcome = "succeeded"
  /\ agent_runs[locals[w].run_id].status = "succeeded"
  /\ \E m \in messages :
       /\ RepliesOf(locals[w].job) = {m}
       /\ m.sender = "assistant"
       /\ m.conversation_id = agent_runs[locals[w].run_id].conversation_id
       /\ m.content_json.text = text

\* C11: with GEMINI_API_KEY unset the reply of a job is "Echo: " followed by
\* the text of the trigger message, whatever the conversation holds, and
\* the job, when its artifact attempt has not failed, ends with that text
\* committed as its one assistant Text message and the run succeeded.
C11_EchoWhenUnconfigured ==
  \A w \in Workers :
    (~GEMINI_API_KEY /\ AgentReturned(w))
      => /\ locals[w].generation = "unconfigured"
         /\ locals[w].response_text =
              EchoPrefix \o TriggerText(locals[w].run_id)
         /\ locals[w].history = << >>
         /\ pc[w] # "except"
              \/ locals[w].artifact \in ArtifactFailures
         /\ (pc[w] = "finally" /\ locals[w].artifact \notin ArtifactFailures)
              => SucceededWithReply(w, EchoPrefix \o
                                        TriggerText(locals[w].run_id))

C11_Witness ==
  \E w \in Workers :
    /\ ~GEMINI_API_KEY
    /\ pc[w] = "finally"
    /\ locals[w].generation = "unconfigured"
    /\ TriggerText(locals[w].run_id) = <<"p", "l", "o", "t">>
    /\ SucceededWithReply(w, <<"E", "c", "h", "o", ":", " ",
                               "p", "l", "o", "t">>)

\* C12: the reply is durable once it has been produced: when a job that has
\* left _run_gemini_agent and stored its reply ends, whether it returns,
\* raises, or is killed during the artifact attempt, the delivery or the
\* last status commit, the store holds the Text reply of that job.
C12_ReplyDurable ==
  [][\A w \in Workers :
       (AgentReturned(w) /\ pc[w] # "idle" /\ pc'[w] = "idle")
         => \E m \in messages' :
              /\ m.job = locals[w].job
              /\ m.content_json.type = "text"
              /\ m.content_json.text = locals[w].response_text]_vars

\* messages.py lines 106-120, get_messages without after_id and since: the
\* committed messages of a conversation, ordered by created_at ascending
get_messages(conversation_id) ==
  OrderByCreated({m \in messages : m.conversation_id = conversation_id})

UserMessagesOf(conversation_id) ==
  {m \in messages : m.conversation_id = conversation_id /\ m.sender = "user"}

\* C13: in a conversation with one posted message whose run is succeeded, the
\* listing of the conversation has the trigger message of the run first and
\* an assistant message second, and every assistant message of the
\* conversation was created after the trigger message.
C13_ReplyAfterTrigger ==
  \A r \in RunIds :
    LET run == agent_runs[r]
        listed == get_messages(run.conversation_id)
    IN  ( /\ run.status = "succeeded"
          /\ Cardinality(UserMessagesOf(run.conversation_id)) = 1 )
          => /\ Len(listed) >= 2
             /\ listed[1].id = run.trigger_message_id
             /\ listed[1].sender = "user"
             /\ listed[2].sender = "assistant"
             /\ \A i \in 2..Len(listed) :
                  /\ listed[i].sender = "assistant"
                  /\ listed[i].created_at > listed[1].created_at

C13_Witness ==
  \E r \in RunIds :
    /\ agent_runs[r].status = "succeeded"
    /\ Cardinality(UserMessagesOf(agent_runs[r].conversation_id)) = 1
    /\ Len(get_messages(agent_runs[r].conversation_id)) = 3
    /\ get_messages(agent_runs[r].conversation_id)[3].content_json.type
         = "image"

\* media.py lines 11-29, the route /v1/media/{media_id}: the Media rows a
\* url of that form names
MediaNamedBy(url) ==
  IF Len(url) = 2 /\ url[1] = "/v1/media/"
  THEN {x \in media : x.id = url[2]} ELSE {}

ImageMessages == {m \in messages : m.content_json.type = "image"}

\* C14: every committed Image message has a url /v1/media/{id} that names a
\* committed Media row of the same conversation with media type image/png.
C14_ImageNamesMedia ==
  \A m \in ImageMessages :
    \E x \in MediaNamedBy(m.content_json.url) :
      /\ x.conversation_id = m.conversation_id
      /\ x.media_type = "image/png"

C14_Witness ==
  \E m \in ImageMessages :
    /\ m.job > 1
    /\ \E x \in MediaNamedBy(m.content_json.url) : x.job = m.job

\* the Delivery rows of run r
DeliveriesOf(r) ==
  {d \in DOMAIN integration_deliveries : integration_deliveries[d].run_id = r}

\* C15: a run never has more than one Delivery row, also when the queue
\* delivers its job more than once, and it has none when INTEGRATION_URL is
\* unset.
C15_OneDeliveryPerRun ==
  \A r \in RunIds :
    /\ Cardinality(DeliveriesOf(r)) <= 1
    /\ ~INTEGRATION_URL => DeliveriesOf(r) = {}

\* the committed assistant Text messages of a conversation
AssistantTextsOf(conversation_id) ==
  {m \in messages : /\ m.conversation_id = conversation_id
                    /\ m.sender = "assistant"
                    /\ m.content_json.type = "text"}

\* C16: a succeeded run has caused exactly one assistant Text message: in a
\* conversation with one posted message whose run is succeeded there is
\* exactly one assistant Text message, also when the queue has delivered
\* the run id twice, one delivery after the other or to two workers at once.
C16_OneReplyPerRun ==
  \A r \in RunIds :
    ( /\ agent_runs[r].status = "succeeded"
      /\ Cardinality(UserMessagesOf(agent_runs[r].conversation_id)) = 1 )
      => Cardinality(AssistantTextsOf(agent_runs[r].conversation_id)) = 1

\* job w has been through the handler of lines 152-164
Handled(w) == pc[w] = "finally" /\ locals[w].error # Null

\* C17: when an exception that no inner handler absorbs has left the try
\* block of execute_agent_run, the job ends with the run committed as
\* failed, finished_at set and last_error the text of that exception, and
\* with the exception re-raised.
C17_FailureIsRecorded ==
  \A w \in Workers :
    Handled(w)
      => /\ locals[w].outcome = "failed"
         /\ agent_runs[locals[w].run_id].status = "failed"
         /\ agent_runs[locals[w].run_id].finished_at = UtcNow
         /\ agent_runs[locals[w].run_id].last_error = locals[w].error

\* C18: when the configured generation capability raises during the call,
\* the reply of the job is "I received your message: " followed by the text
\* of the trigger message, the job does not go to the failure handler, and,
\* when its artifact attempt has not failed, it ends with that text
\* committed as its one assistant Text message and the run succeeded.
C18_FallbackWhenCapabilityRaises ==
  \A w \in Workers :
    locals[w].generation = "raised"
      => /\ GEMINI_API_KEY
         /\ locals[w].response_text =
              FallbackPrefix \o TriggerText(locals[w].run_id)
         /\ pc[w] # "except"
              \/ locals[w].artifact \in ArtifactFailures
         /\ (pc[w] = "finally" /\ locals[w].artifact \notin ArtifactFailures)
              => SucceededWithReply(w, FallbackPrefix \o
                                        TriggerText(locals[w].run_id))

C18_Witness ==
  \E w \in Workers :
    /\ pc[w] = "finally"
    /\ locals[w].generation = "raised"
    /\ TriggerText(locals[w].run_id) = <<"H", "i">>
    /\ SucceededWithReply(w, FallbackPrefix \o <<"H", "i">>)

\* job w is at a run id that matches no AgentRun row
OnUnknownRun(w) == pc[w] # "idle" /\ locals[w].run_id \notin RunIds

\* how many jobs of run r wait in the queue
Waiting(queue, r) == Cardinality({i \in DOMAIN queue : queue[i] = r})

\* a job at an unknown run id only starts and ends, and ends by returning
C19_OnlyReturns ==
  \A w \in Workers :
    OnUnknownRun(w)
      => /\ pc[w] \in {"start", "finally"}
         /\ pc[w] = "finally"
              => locals[w].outcome = "returned" /\ locals[w].error = Null

\* a step of a job at an unknown run id leaves every record alone, and the
\* pipeline puts no job of that run id into the queue
C19_NoEffect ==
  /\ \A w \in Workers :
       (OnUnknownRun(w) /\ pc'[w] # pc[w]) => UNCHANGED store
  /\ Waiting(job_queue', UnknownRun) > Waiting(job_queue, UnknownRun)
       => counters'.stale > counters.stale

\* C19: a job whose run id matches no AgentRun row returns without raising:
\* it never enters the try block or the failure handler, no Run, Message,
\* Media or Delivery row is created or changed by it, and the pipeline does
\* not enqueue the run id again.
C19_MissingRunIsNoOp == [](C19_OnlyReturns) /\ [][C19_NoEffect]_vars

C19_Witness ==
  \E w \in Workers :
    /\ OnUnknownRun(w)
    /\ pc[w] = "finally"
    /\ locals[w].outcome = "returned"
    /\ RunIds # {}

\* the trigger message of run r is not in the store
TriggerMissing(r) ==
  ~ \E m \in messages : m.id = agent_runs[r].trigger_message_id

HasDelivery(w) == pc[w] # "idle" /\ locals[w].delivery # 0

\* C21: for the Delivery of a job, requests sent <= committed attempts <= 3;
\* when a request is about to be sent the committed counter already counts
\* it; and once a response 200, 201 or 202 has made the Delivery succeeded
\* the job is out of the loop and sends nothing more.
C21_AttemptsBoundRequests ==
  \A w \in Workers :
    HasDelivery(w)
      => /\ locals[w].requests <= DeliveryOf(w).attempts
         /\ DeliveryOf(w).attempts <= 3
         /\ pc[w] = "post" => DeliveryOf(w).attempts = locals[w].requests + 1
         /\ DeliveryOf(w).status = "succeeded"
              => /\ pc[w] \notin {"attempt", "post", "exhausted"}
                 /\ locals[w].first_response # NoResponse
                 /\ locals[w].requests = DeliveryOf(w).attempts

C21_Witness ==
  \E w \in Workers :
    /\ HasDelivery(w)
    /\ DeliveryOf(w).status = "succeeded"
    /\ locals[w].first_response = TransportError
    /\ locals[w].requests = 3
    /\ DeliveryOf(w).attempts = 3

\* Run r and its trigger message are committed
Loadable(r) ==
  /\ r \in RunIds
  /\ \E m \in messages : m.id = agent_runs[r].trigger_message_id

\* C22: a job is on the queue, or held by a worker, only for a run id whose
\* Run and trigger message are committed: the producer enqueues after its
\* commit, so no worker dequeues an id it cannot load.
C22_EnqueuedAfterCommit ==
  /\ \A i \in DOMAIN job_queue : Loadable(job_queue[i])
  /\ \A w \in Workers : pc[w] # "idle" => Loadable(locals[w].run_id)
  /\ \A r \in delivered : Loadable(r)

C22_Witness ==
  /\ job_queue # << >>
  /\ Loadable(Head(job_queue))
  /\ agent_runs[Head(job_queue)].status = "queued"
  /\ producer.pc = "idle"

\* the user and assistant messages of a conversation, oldest first, each as
\* a turn
TurnsOf(conversation_id) ==
  LET kept == OrderByCreated({m \in messages :
                               /\ m.conversation_id = conversation_id
                               /\ m.sender \in {"user", "assistant"}})
  IN  [i \in 1..Len(kept) |->
        [ role |-> IF kept[i].sender = "user" THEN "user" ELSE "model",
          parts |-> TextOf(kept[i].content_json) ]]

\* the step in which job w reads the conversation
ReadsContext(w) == pc[w] = "context" /\ pc'[w] = "agent"

\* the step in which job w calls the configured generation capability
CallsCapability(w) ==
  pc[w] = "agent" /\ locals'[w].generation \in {"answered", "raised"}

\* C23: the context a job builds is the user and assistant messages of the
\* run's conversation in ascending creation order, with no system message;
\* the new input is the text of the trigger message; the history given to
\* the capability is that context without its last turn, and it is empty
\* when the context has one turn or none.
C23_ContextAndHistory ==
  [][\A w \in Workers :
       /\ ReadsContext(w)
            => /\ locals'[w].conversation_context =
                    TurnsOf(agent_runs[locals[w].run_id].conversation_id)
               /\ locals'[w].user_text = TriggerText(locals[w].run_id)
               /\ \A i \in DOMAIN locals'[w].conversation_context :
                    locals'[w].conversation_context[i].parts
                      # SystemMessage.content_json.text
       /\ CallsCapability(w)
            => LET context == locals[w].conversation_context
                   history == locals'[w].history
               IN  /\ Len(context) <= 1 => history = << >>
                   /\ Len(context) > 1
                        => /\ Len(history) = Len(context) - 1
                           /\ \A i \in DOMAIN history :
                                history[i] = context[i]]_vars

C23_Witness ==
  \E w \in Workers :
    /\ SystemMessage \in messages
    /\ locals[w].generation = "answered"
    /\ Len(locals[w].conversation_context) = 3
    /\ Len(locals[w].history) = 2

\* C24: every committed Run carries the timestamps of the transitions it has
\* made: running, succeeded or failed has started_at; succeeded or failed
\* has finished_at; failed has last_error.
C24_TimestampsWithStatus ==
  \A r \in RunIds :
    LET run == agent_runs[r] IN
    /\ run.status \in {"running", "succeeded", "failed"}
         => run.started_at # Null
    /\ run.status \in {"succeeded", "failed"} => run.finished_at # Null
    /\ run.status = "failed" => run.last_error # Null
    /\ run.status = "queued"
         => /\ run.started_at = Null
            /\ run.finished_at = Null
            /\ run.last_error = Null

C24_Witness ==
  \E r \in RunIds :
    /\ agent_runs[r].status = "failed"
    /\ agent_runs[r].started_at = UtcNow
    /\ agent_runs[r].finished_at = UtcNow
    /\ agent_runs[r].last_error = "OperationalError"

\* a job that has started on an existing run ends
C25_Ends ==
  \A w \in Workers :
    (pc[w] \in {"context", "agent", "chart", "payload", "attempt", "post",
                "exhausted", "succeed", "except"}) ~> (pc[w] = "finally")

\* a job on an existing run has ended with the run succeeded or failed and
\* with its Delivery, if it made one, not pending and tried at most 3 times
C25_EndsTerminal ==
  \A w \in Workers :
    (pc[w] = "finally" /\ locals[w].run_id \in RunIds)
      => /\ agent_runs[locals[w].run_id].status \in Terminal
         /\ locals[w].delivery # 0
              => /\ DeliveryOf(w).status \in {"succeeded", "failed"}
                 /\ DeliveryOf(w).attempts <= 3

\* C25: with a worker that is not interrupted and calls that return or
\* raise, every job dequeued for an existing run ends, and it ends with the
\* run committed as succeeded or failed; the delivery loop makes at most
\* three attempts and leaves no Delivery pending.
C25_JobsTerminate == C25_Ends /\ [](C25_EndsTerminal)

\* a worker is at a job of run r
Processing(r) == \E w \in Workers : pc[w] # "idle" /\ locals[w].run_id = r

\* C26: only a worker that is processing a job of a run changes the Run
\* record: a step with no worker at a job of run r leaves the record as it
\* is, so a run left running by a crashed or killed worker stays running
\* until its job is delivered again.
C26_OnlyItsWorkerChangesRun ==
  [][\A r \in RunIds :
       (~Processing(r) /\ ~Processing(r)') => agent_runs'[r] = agent_runs[r]]_vars

C26_Witness ==
  \E r \in RunIds :
    /\ counters.crashes > 0
    /\ agent_runs[r].status = "running"
    /\ agent_runs[r].finished_at = Null
    /\ ~Processing(r)
    /\ job_queue = << >>
    /\ producer.pc = "idle"
    /\ counters.redeliveries = 0

\* the trigger text of run r holds "plot:" or "chart:" in some letter case
HasKeyword(r) ==
  \/ Contains(<<"p", "l", "o", "t", ":">>, Lower(TriggerText(r)))
  \/ Contains(<<"c", "h", "a", "r", "t", ":">>, Lower(TriggerText(r)))

\* job w has reached the call of generate_chart
GeneratorInvoked(w) == pc[w] = "chart" \/ locals[w].artifact # Null

\* C27: a job invokes the Media Generator if and only if the trigger text
\* holds "plot:" or "chart:", compared case-insensitively; a job whose
\* trigger text holds neither writes no Media row and no Image message and
\* reports has_visualization = false.
C27_GeneratorIffKeyword ==
  \A w \in Workers :
    AgentReturned(w)
      => /\ GeneratorInvoked(w) <=> HasKeyword(locals[w].run_id)
         /\ ~HasKeyword(locals[w].run_id)
              => /\ MediaOf(locals[w].job) = {}
                 /\ ImagesOf(locals[w].job) = {}
                 /\ session[w].new_media = {}
                 /\ \A m \in session[w].new_messages :
                      m.content_json.type = "text"
                 /\ locals[w].media_id = NoMedia
                 /\ ~locals[w].has_visualization

C27_Witness ==
  \E w \in Workers :
    /\ pc[w] = "finally"
    /\ locals[w].outcome = "succeeded"
    /\ locals[w].entered_send
    /\ TriggerText(locals[w].run_id) = <<"p", "l", "o", "t">>
    /\ ~GeneratorInvoked(w)
    /\ ~locals[w].has_visualization

\* the user and assistant messages of a conversation, oldest first
KeptMessages(conversation_id) ==
  OrderByCreated({m \in messages : /\ m.conversation_id = conversation_id
                                   /\ m.sender \in {"user", "assistant"}})

\* C28: when a job with the capability configured reads the conversation,
\* the latest turn, the one that is left out of the history, is the trigger
\* message of its run: the history never holds the trigger message, also
\* when another message was posted or another reply was stored in the
\* conversation after the trigger was posted.
C28_LatestTurnIsTrigger ==
  [][\A w \in Workers :
       (GEMINI_API_KEY /\ ReadsContext(w))
         => LET run == agent_runs[locals[w].run_id]
                kept == KeptMessages(run.conversation_id)
            IN  /\ kept # << >>
                /\ kept[Len(kept)].id = run.trigger_message_id]_vars

\* a job of run r is on the queue or has been handed to a worker
EverEnqueued(r) ==
  r \in delivered \/ \E i \in DOMAIN job_queue : job_queue[i] = r

\* the request that created run r is over
RequestOver(r) == producer.pc = "idle" \/ producer.run_id # r

\* C29: no committed run is left without a job: when the request that
\* created a run is over, whether it returned, failed in the enqueue or
\* died after the commit, a job of that run has been enqueued.
C29_EveryRunEnqueued ==
  \A r \in RunIds : RequestOver(r) => EverEnqueued(r)

\* job w has built its delivery payload (lines 130-137)
PayloadBuilt(w) == locals[w].entered_send

\* C30: the has_visualization flag of a payload is true exactly when the job
\* has stored an Image message: stored in its transaction when the payload
\* is built, committed once a Delivery exists or the job has succeeded.  A
\* job whose insert of the Media row or of the Image message failed builds
\* no payload, so none reports true for it.
C30_FlagIffImage ==
  \A w \in Workers :
    /\ PayloadBuilt(w)
         => /\ locals[w].has_visualization
                 <=> \E m \in VisibleMessages(w) :
                       m.job = locals[w].job /\ m.content_json.type = "image"
            /\ (locals[w].delivery # 0 \/ locals[w].outcome = "succeeded")
                 => (locals[w].has_visualization
                       <=> ImagesOf(locals[w].job) # {})
    /\ locals[w].artifact \in {"media_flush_error", "image_flush_error"}
         => ~PayloadBuilt(w) /\ ~locals[w].has_visualization

C30_Witness ==
  \E w \in Workers :
    /\ PayloadBuilt(w)
    /\ pc[w] = "post"
    /\ locals[w].has_visualization
    /\ ImagesOf(locals[w].job) # {}

\* C31: the optional fields of every committed Run agree with its status,
\* over every sequence of operations, job redelivery included: finished_at
\* is null while the status is queued or running, and last_error is null
\* while the status is not failed.
C31_OptionalFieldsAgree ==
  \A r \in RunIds :
    LET run == agent_runs[r] IN
    /\ run.status \in {"queued", "running"} => run.finished_at = Null
    /\ run.status # "failed" => run.last_error = Null

\* C32, in every committed state: attempts is within 0..3, a failed Delivery
\* has made 3 attempts and a succeeded one between 1 and 3.
C32_AttemptsWithStatus ==
  \A d \in DOMAIN integration_deliveries :
    LET delivery == integration_deliveries[d] IN
    /\ delivery.status \in {"pending", "succeeded", "failed"}
    /\ delivery.attempts \in 0..3
    /\ delivery.status = "failed" => delivery.attempts = 3
    /\ delivery.status = "succeeded" => delivery.attempts \in 1..3

\* C32, in every step: the status of a Delivery leaves pending only, for
\* succeeded or failed, and never changes afterwards; attempts never
\* decreases.
C32_OneDirection ==
  /\ DOMAIN integration_deliveries \subseteq DOMAIN integration_deliveries'
  /\ \A d \in DOMAIN integration_deliveries :
       LET before == integration_deliveries[d]
           after == integration_deliveries'[d] IN
       /\ before.status # "pending" => after.status = before.status
       /\ after.attempts >= before.attempts

\* C32: the lifecycle of a Delivery record is one-directional: pending ->
\* succeeded or pending -> failed and no change afterwards, attempts never
\* decreases and stays within 0..3, failed implies attempts = 3 and
\* succeeded implies 1 <= attempts <= 3.
C32_DeliveryLifecycle == []C32_AttemptsWithStatus /\ [][C32_OneDirection]_vars

C32_Witness ==
  \E d, e \in DOMAIN integration_deliveries :
    /\ integration_deliveries[d].status = "failed"
    /\ integration_deliveries[d].attempts = 3
    /\ integration_deliveries[e].status = "succeeded"
    /\ integration_deliveries[e].attempts = 2

====
